---- MODULE Spec2Model ----
(***************************************************************************)
(* Model of pybind11_weaver's EntityTree construction                      *)
(* (src/pybind11_weaver/entity_tree.py): the template instantiation        *)
(* normalization scan, the re-parse of the translation unit, and the       *)
(* worklist walk that maps the cursor tree to the tree of Entities.        *)
(***************************************************************************)
EXTENDS Integers, Sequences, FiniteSets, TLC

VARIABLES
    tree,                    \* the cursor tree of the current translation unit (gu.tu)
    tuGen,                   \* which translation unit gu.tu is: 0 as parsed, +1 per reload_tu
    pc,                      \* position in EntityTree.__init__ / _map_from_gu
    failure,                 \* the exception that ended the construction, or "none"
    scanPos,                 \* next cursor clang_visitChildren hands to the normalizer's visitor
    explicit_instantiation,  \* set of type names                    (entity_tree.py:106)
    implicit_instantiation,  \* insertion-ordered dict name -> prefix (entity_tree.py:107)
    init_code,               \* the fragment passed to gu.reload_tu   (entity_tree.py:155)
    pinned,                  \* cursors that carry the injected _tu attribute
    worklist,                \* list of (cursor, entity)             (entity_tree.py:173)
    last_parent,             \* last_parent[0]                       (entity_tree.py:165)
    visitQ,                  \* children clang_visitChildren still has to hand to the walk's visitor
    children,                \* per Entity (0 is the EntityTree): its children dict, in insertion order
    entCursor,               \* per Entity: the cursor it wraps (Entity.cursor)
    parentRef,               \* per Entity: _entity_tree_parent
    warnings,                \* the redeclaration warnings logged    (entity_tree.py:52)
    notes,                   \* the info notes of handle_implicit     (entity_tree.py:128)
    factory_memo,            \* process-wide bookkeeping of the Entity factories (funktion)
    doc,                     \* one call of entity_base._inject_docstring: arguments and result
    hist                     \* history: what the two passes did, for stating the properties

vars == <<tree, tuGen, pc, failure, scanPos, explicit_instantiation,
          implicit_instantiation, init_code, pinned, worklist, last_parent,
          visitQ, children, entCursor, parentRef, warnings, notes, factory_memo,
          doc, hist>>

(***************************************************************************)
(* Bounds                                                                  *)
(***************************************************************************)
MaxCursors == 4        \* cursors below the translation unit's root cursor
MaxCodeLen == 3        \* characters of a code fragment given to _inject_docstring

(***************************************************************************)
(* Cursors.  Cursor 0 is the translation unit's root cursor; cursor i > 0  *)
(* is tree[i].  Cursors are numbered in source order (pre-order), the      *)
(* order in which clang_visitChildren enumerates them.                     *)
(***************************************************************************)
Decl(k, n, i, tm, ty, rt, ri) ==
    [kind |-> k, name |-> n, inp |-> i, tmpl |-> tm, type |-> ty,
     result |-> rt, refIn |-> ri]

NsDecl      == Decl("Namespace",   "ns",       TRUE,  FALSE, "none",     "none", FALSE)
ForeignDecl == Decl("Namespace",   "ns",       FALSE, FALSE, "none",     "none", FALSE)
LinkDecl    == Decl("LinkageSpec", "",         TRUE,  FALSE, "none",     "none", FALSE)
ClassDecl   == Decl("ClassDecl",   "A",        TRUE,  FALSE, "A",        "none", FALSE)
ExplDecl    == Decl("StructDecl",  "Box<int>", TRUE,  TRUE,  "Box<int>", "none", FALSE)
FieldDecl   == Decl("FieldDecl",   "m",        TRUE,  FALSE, "Box<int>", "none", FALSE)
BaseDecl    == Decl("CXXBaseSpecifier", "Box<int>", TRUE, FALSE, "Box<int>", "none", FALSE)
TRefDecl    == Decl("TemplateRef", "Box",      TRUE,  FALSE, "none",     "none", TRUE)

Decls == {NsDecl, ForeignDecl, LinkDecl, ClassDecl, ExplDecl, FieldDecl, BaseDecl,
          TRefDecl}

\* a second family of headers: overloaded functions, their parameters, and a
\* variable.  The name of a function is its spelling; its displayname is
\* computed from the parameters it has.
FnInt   == Decl("FunctionDecl", "f", TRUE, FALSE, "none",     "int",      FALSE)
FnBox   == Decl("FunctionDecl", "f", TRUE, FALSE, "none",     "Box<int>", FALSE)
ParmInt == Decl("ParmDecl",     "a", TRUE, FALSE, "int",      "none",     FALSE)
ParmBox == Decl("ParmDecl",     "b", TRUE, FALSE, "Box<int>", "none",     FALSE)
VarDecl == Decl("VarDecl",      "v", TRUE, FALSE, "Box<int>", "none",     FALSE)

FnDecls == {NsDecl, FnInt, FnBox, ParmInt, ParmBox, VarDecl, TRefDecl, ExplDecl}

\* a third family: namespaces, extern "C" blocks and classes only
ScopeDecls == {NsDecl, LinkDecl, ClassDecl}

\* the family of headers the parser is reading
InputDecls ==
    IF hist.family = "functions" THEN FnDecls
    ELSE IF hist.family = "nesting" THEN ScopeDecls
    ELSE Decls

ScopeKinds == {"TranslationUnit", "Namespace", "LinkageSpec"}
ClassKinds == {"ClassDecl", "StructDecl"}

\* which declaration C++ lets appear directly inside which
CanNest(pk, d) ==
    CASE pk \in ScopeKinds -> d.kind \in {"Namespace", "LinkageSpec", "FunctionDecl",
                                           "VarDecl"} \cup ClassKinds
      [] pk \in ClassKinds -> d.kind \in {"ClassDecl", "FieldDecl", "CXXBaseSpecifier"}
      [] pk = "FunctionDecl" -> d.kind \in {"ParmDecl", "TemplateRef"}
      [] pk \in {"FieldDecl", "CXXBaseSpecifier", "ParmDecl", "VarDecl"} ->
                              d.kind = "TemplateRef"
      [] OTHER             -> FALSE

KindIn(t, c)   == IF c = 0 THEN "TranslationUnit" ELSE t[c].kind
ParentIn(t, c) == t[c].parent

RECURSIVE AncestorsIn(_, _)
AncestorsIn(t, c) ==
    IF c = 0 THEN {} ELSE {ParentIn(t, c)} \cup AncestorsIn(t, ParentIn(t, c))

\* where the next cursor in source order can be attached
RightPath(t) ==
    IF Len(t) = 0 THEN {0} ELSE {Len(t)} \cup AncestorsIn(t, Len(t))

\* the declarations that may come next in source order after the cursors of t
NextCursors(t) ==
    UNION { { [parent |-> p] @@ d : d \in {x \in InputDecls : CanNest(KindIn(t, p), x)} }
            : p \in RightPath(t) }

(***************************************************************************)
(* Types.  A type name stands for the canonical type with const, reference *)
(* and pointer stripped (common.remove_const_ref_pointer, get_canonical,   *)
(* common.safe_type_reference).                                            *)
(***************************************************************************)
\* common.is_concreate_template of the type's declaration
TypeIsConcreteTemplate(ty) == ty \in {"Box<int>", "Ext<int>"}
\* gu.is_cursor_in_inputs of clang_getSpecializedCursorTemplate(type_cursor)
TemplateDefInInputs(ty) == ty = "Box<int>"
\* the source line at the template definition's location
TemplateDefLine(ty) == IF ty = "Box<int>" THEN "struct" ELSE "class"

_get_template_struct_class(ty) ==
    IF TemplateDefLine(ty) = "struct" THEN "extern template struct"
                                      ELSE "extern template class"

(***************************************************************************)
(* Helpers on the cursor tree and on insertion-ordered dicts               *)
(***************************************************************************)
None == -1

ChildSeq(t, c) ==
    LET IsChild(j) == t[j].parent = c
    IN  SelectSeq([j \in 1..Len(t) |-> j], IsChild)

\* the first cursor after c in source order that is not below c
AfterSubtree(t, c) ==
    LET later == {j \in (c + 1)..Len(t) : t[j].parent < c}
    IN  IF later = {} THEN Len(t) + 1
        ELSE CHOOSE j \in later : \A k \in later : j <= k

SeqRange(s) == {s[i] : i \in 1..Len(s)}

DictKeys(d) == {d[i][1] : i \in 1..Len(d)}
DictDel(d, k) ==
    LET Keep(e) == e[1] # k
    IN  SelectSeq(d, Keep)
DictSet(d, k, v) ==
    IF k \in DictKeys(d)
    THEN [i \in 1..Len(d) |-> IF d[i][1] = k THEN <<k, v>> ELSE d[i]]
    ELSE Append(d, <<k, v>>)

should_export(c) == c # 0 /\ tree[c].inp

Cur(id) == [tu |-> tuGen, id |-> id]

(***************************************************************************)
(* The normalization scan: _inject_explicit_template_instantiation         *)
(***************************************************************************)
\* faulty variant: handle_explicit forgets to drop the stub recorded earlier
handle_explicit_keeps_stub(impl, c) == impl

\* lines 115-116: implicit_instantiation after handle_explicit(cursor)
handle_explicit_implicit(impl, c) == DictDel(impl, tree[c].type)

\* faulty variant: only the function and method branch of handle_implicit exists
possible_instances_functions_only(parent) ==
    LET k == KindIn(tree, parent)
        IsParm(j) == tree[j].kind = "ParmDecl"
        args == SelectSeq(ChildSeq(tree, parent), IsParm)
    IN  IF k \in {"FunctionDecl", "CXXMethod"}
        THEN <<tree[parent].result>> \o [i \in 1..Len(args) |-> tree[args[i]].type]
        ELSE <<>>

\* faulty variant: a parent of any other kind is treated like a field
possible_instances_any_parent(parent) ==
    LET k == KindIn(tree, parent)
        IsParm(j) == tree[j].kind = "ParmDecl"
        args == SelectSeq(ChildSeq(tree, parent), IsParm)
    IN  IF k \in {"FunctionDecl", "CXXMethod"}
        THEN <<tree[parent].result>> \o [i \in 1..Len(args) |-> tree[args[i]].type]
        ELSE <<tree[parent].type>>

\* lines 119-129: the candidate types handle_implicit takes from the parent
possible_instances(parent) ==
    LET k == KindIn(tree, parent)
        IsParm(j) == tree[j].kind = "ParmDecl"
        args == SelectSeq(ChildSeq(tree, parent), IsParm)
    IN  IF k \in {"FieldDecl", "ParmDecl", "CXXBaseSpecifier"}
        THEN <<tree[parent].type>>
        ELSE IF k \in {"FunctionDecl", "CXXMethod"}
        THEN <<tree[parent].result>> \o [i \in 1..Len(args) |-> tree[args[i]].type]
        ELSE <<>>

\* the for loop of handle_implicit from candidate i on; readable says whether
\* _get_template_struct_class can read the template definition's source file
RECURSIVE implicit_loop(_, _, _, _, _)
implicit_loop(impl, expl, cands, i, readable) ==
    IF i > Len(cands) THEN [impl |-> impl, raised |-> FALSE]
    ELSE IF ~TypeIsConcreteTemplate(cands[i]) THEN [impl |-> impl, raised |-> FALSE]
    ELSE IF TemplateDefInInputs(cands[i]) /\ cands[i] \notin expl
    THEN IF readable
         THEN implicit_loop(DictSet(impl, cands[i], _get_template_struct_class(cands[i])),
                            expl, cands, i + 1, readable)
         ELSE [impl |-> impl, raised |-> TRUE]
    ELSE implicit_loop(impl, expl, cands, i + 1, readable)

handle_implicit(impl, expl, parent, readable) ==
    implicit_loop(impl, expl, possible_instances(parent), 1, readable)

handle_implicit_notes(parent) ==
    IF KindIn(tree, parent) \in {"FieldDecl", "ParmDecl", "CXXBaseSpecifier",
                                 "FunctionDecl", "CXXMethod"}
    THEN notes
    ELSE Append(notes, parent)

\* the pins after the with block of the visitor: _inject_tu deletes them after
\* the yield, which is not reached when the block raises
_inject_tu_exit(pins, nodes, raised) ==
    IF raised THEN pins \cup nodes ELSE pins \ nodes

ScanVisit ==
    /\ pc = "scan"
    /\ scanPos <= Len(tree)
    /\ \E readable \in BOOLEAN :
        LET cursor  == scanPos
            parent  == tree[cursor].parent
            isExpl  == tree[cursor].kind \in {"ClassDecl", "StructDecl"} /\ tree[cursor].tmpl
            isImpl  == ~isExpl /\ tree[cursor].kind = "TemplateRef" /\ tree[cursor].refIn
            out     == IF isImpl
                       THEN handle_implicit(implicit_instantiation,
                                            explicit_instantiation, parent, readable)
                       ELSE [impl |-> IF isExpl
                                      THEN handle_explicit_implicit(implicit_instantiation, cursor)
                                      ELSE implicit_instantiation,
                             raised |-> FALSE]
        IN  /\ hist' = [hist EXCEPT !.scanned = @ \cup {cursor}]
            /\ IF ~should_export(cursor)
               THEN /\ scanPos' = AfterSubtree(tree, cursor)
                    /\ UNCHANGED <<pc, failure, explicit_instantiation,
                                   implicit_instantiation, pinned, notes>>
               ELSE /\ explicit_instantiation' =
                          IF isExpl THEN explicit_instantiation \cup {tree[cursor].type}
                                    ELSE explicit_instantiation
                    /\ implicit_instantiation' = out.impl
                    /\ notes' = IF isImpl THEN handle_implicit_notes(parent) ELSE notes
                    /\ pinned' = _inject_tu_exit(pinned, {Cur(cursor), Cur(parent)}, out.raised)
                    /\ pc' = IF out.raised THEN "failed" ELSE pc
                    /\ failure' = IF out.raised THEN "exception" ELSE failure
                    /\ scanPos' = IF out.raised THEN scanPos ELSE cursor + 1
    /\ UNCHANGED <<tree, tuGen, init_code, worklist, last_parent, visitQ,
                   children, entCursor, parentRef, warnings>>
    /\ UNCHANGED <<factory_memo, doc>>

\* gu.reload_tu(init_code): the translation unit is parsed again with the stubs
\* appended; each stub is an explicit instantiation declared at file scope
ReparsedTree(t, code) ==
    t \o [i \in 1..Len(code) |->
            [parent |-> 0] @@
            Decl(IF code[i][2] = "extern template struct" THEN "StructDecl" ELSE "ClassDecl",
                 code[i][1], TRUE, TRUE, code[i][1], "none", FALSE)]

ReloadTU ==
    /\ pc = "scan"
    /\ scanPos > Len(tree)
    /\ init_code' = implicit_instantiation
    /\ tree' = ReparsedTree(tree, init_code')
    /\ tuGen' = tuGen + 1
    /\ hist' = [hist EXCEPT !.reloads = @ + 1]
    /\ pc' = "reloaded"
    /\ UNCHANGED <<failure, scanPos, explicit_instantiation, implicit_instantiation,
                   pinned, worklist, last_parent, visitQ, children, entCursor,
                   parentRef, warnings, notes>>
    /\ UNCHANGED <<factory_memo, doc>>

(***************************************************************************)
(* The walk: _map_from_gu and _add_child.  An Entity is named by the       *)
(* number of the cursor create_entity was given; 0 is the EntityTree.      *)
(***************************************************************************)
BindableKinds == {"Namespace", "ClassDecl", "StructDecl", "FunctionDecl", "EnumDecl"}

\* the kind-dispatching factory: None for a cursor kind that has no binding
create_entity(c) == IF tree[c].kind \in BindableKinds THEN c ELSE None

\* cursor.displayname: the name, and for a function the types of its
\* parameters as well ("f(int, double)")
displayname(c) ==
    LET IsParm(j) == tree[j].kind = "ParmDecl"
        args == SelectSeq(ChildSeq(tree, c), IsParm)
    IN  IF tree[c].kind = "FunctionDecl"
        THEN <<tree[c].name, "(">> \o [i \in 1..Len(args) |-> tree[args[i]].type] \o <<")">>
        ELSE <<tree[c].name>>

\* faulty variant: the scope key is the bare name of the declaration
key_in_scope_spelling(c) == <<tree[c].name>>

\* Entity.key_in_scope of the Entity made for cursor c: cursor.displayname
key_in_scope(c) == displayname(c)

\* the bookkeeping of the function factory once create_entity was given cursor c
factory_memo_after(memo, c) ==
    IF tree[c].kind = "FunctionDecl" THEN memo \cup {displayname(c)} ELSE memo

\* parent.children[key], or None
ChildByKey(parent, key) ==
    LET hit == {e \in SeqRange(children[parent]) : key_in_scope(e) = key}
    IN  IF hit = {} THEN None ELSE CHOOSE e \in hit : TRUE

\* faulty variant: the root cursor is taken once, from the translation unit as first parsed
EntityTree_cursor_cached == [tu |-> 0, id |-> 0]

\* EntityTree.cursor: the root cursor of the translation unit gu holds now
EntityTree_cursor == Cur(0)

\* faulty variant: a namespace whose key exists is dropped instead of merged
_add_child_no_merge(parent, child) ==
    IF child = None THEN [branch |-> "none", ret |-> None]
    ELSE LET old == ChildByKey(parent, key_in_scope(child))
         IN  IF old # None
             THEN [branch |-> "redeclaration", ret |-> None]
             ELSE [branch |-> "install", ret |-> child]

\* faulty variant: any cursor whose key exists is merged into the existing Entity
_add_child_merges_all(parent, child) ==
    IF child = None THEN [branch |-> "none", ret |-> None]
    ELSE LET old == ChildByKey(parent, key_in_scope(child))
         IN  IF old # None
             THEN [branch |-> "namespace", ret |-> old]
             ELSE [branch |-> "install", ret |-> child]

\* faulty variant: for a reopened namespace the candidate is returned, not the
\* Entity that is installed
_add_child_returns_candidate(parent, child) ==
    IF child = None THEN [branch |-> "none", ret |-> None]
    ELSE LET old == ChildByKey(parent, key_in_scope(child))
         IN  IF old # None
             THEN IF tree[child].kind = "Namespace"
                  THEN [branch |-> "namespace", ret |-> child]
                  ELSE [branch |-> "redeclaration", ret |-> None]
             ELSE [branch |-> "install", ret |-> child]

\* faulty variant: a redeclaration is reported, and the existing Entity is
\* returned for it all the same
_add_child_descends_redeclaration(parent, child) ==
    IF child = None THEN [branch |-> "none", ret |-> None]
    ELSE LET old == ChildByKey(parent, key_in_scope(child))
         IN  IF old # None
             THEN IF tree[child].kind = "Namespace"
                  THEN IF Len(children[old]) = 0
                       THEN [branch |-> "namespace", ret |-> old]
                       ELSE [branch |-> "assert", ret |-> None]
                  ELSE [branch |-> "redeclaration", ret |-> old]
             ELSE [branch |-> "install", ret |-> child]

\* faulty variant: the child is installed without looking the key up
_add_child_always_installs(parent, child) ==
    IF child = None THEN [branch |-> "none", ret |-> None]
    ELSE [branch |-> "install", ret |-> child]

\* what _add_child(parent, child) does: its result (the Entity to descend
\* into, or None) and which branch it took
_add_child(parent, child) ==
    IF child = None THEN [branch |-> "none", ret |-> None]
    ELSE LET old == ChildByKey(parent, key_in_scope(child))
         IN  IF old # None
             THEN IF tree[child].kind = "Namespace"
                  THEN IF Len(children[old]) = 0
                       THEN [branch |-> "namespace", ret |-> old]
                       ELSE [branch |-> "assert", ret |-> None]
                  ELSE [branch |-> "redeclaration", ret |-> None]
             ELSE IF child \in DOMAIN parentRef
                  THEN [branch |-> "assert", ret |-> None]
                  ELSE [branch |-> "install", ret |-> child]

\* faulty variant: the visitor never filters
visitor_filters_nothing(c) == FALSE

\* line 178: the visitor returns at once on a cursor outside the inputs
visitor_filters(c) == ~tree[c].inp

\* faulty variant: an extern "C" block is queued against the tree root
linkage_item_at_root(child_cursor, parent) == [cur |-> child_cursor, ent |-> 0]

\* line 183: what the visitor queues for an extern "C" block met under parent
linkage_item(child_cursor, parent) == [cur |-> child_cursor, ent |-> parent]

\* faulty variant: the worklist is an unordered collection whose iteration
\* order differs from one construction to the next
PopIndex_unordered(wl) == IF hist.run = 1 THEN Len(wl) ELSE 1

\* worklist.pop(): which item the loop takes next
PopIndex(wl) == Len(wl)

\* faulty variant: the worklist is seeded and the walk entered while the scan still runs
StartWalk_before_reload ==
    /\ pc \in {"scan", "reloaded"}
    /\ last_parent' = None
    /\ worklist' = <<[cur |-> EntityTree_cursor, ent |-> 0]>>
    /\ pc' = "walk"
    /\ UNCHANGED <<tree, tuGen, failure, scanPos, explicit_instantiation,
                   implicit_instantiation, init_code, pinned, visitQ, children,
                   entCursor, parentRef, warnings, notes, hist>>
    /\ UNCHANGED <<factory_memo, doc>>

\* _map_from_gu after the normalization returned: lines 165-173
StartWalk ==
    /\ pc = "reloaded"
    /\ last_parent' = None
    /\ worklist' = <<[cur |-> EntityTree_cursor, ent |-> 0]>>
    /\ pc' = "walk"
    /\ UNCHANGED <<tree, tuGen, failure, scanPos, explicit_instantiation,
                   implicit_instantiation, init_code, pinned, visitQ, children,
                   entCursor, parentRef, warnings, notes, hist>>
    /\ UNCHANGED <<factory_memo, doc>>

\* one round of the while loop up to the call of clang_visitChildren
PopAt(i) ==
    /\ pc = "walk"
    /\ visitQ = <<>>
    /\ worklist # <<>>
    /\ LET new_item == worklist[i]
           kids     == ChildSeq(tree, new_item.cur.id)
       IN  /\ worklist' = [j \in 1..(Len(worklist) - 1) |->
                              IF j < i THEN worklist[j] ELSE worklist[j + 1]]
           /\ last_parent' = new_item.ent
           /\ visitQ' = [j \in 1..Len(kids) |-> [tu |-> new_item.cur.tu, id |-> kids[j]]]
           /\ hist' = IF hist.run = 2 THEN hist   \* history covers the first construction
                      ELSE [hist EXCEPT
                              !.mapped = Append(@, <<new_item.cur.id, new_item.ent>>)]
    /\ UNCHANGED <<tree, tuGen, pc, failure, scanPos, explicit_instantiation,
                   implicit_instantiation, init_code, pinned, children, entCursor,
                   parentRef, warnings, notes, factory_memo, doc>>

PopItem == worklist # <<>> /\ PopAt(PopIndex(worklist))

\* the visitor of _map_from_gu, called on the k-th of the children that
\* clang_visitChildren still has to enumerate
VisitAt(k) ==
    /\ pc = "walk"
    /\ visitQ # <<>>
    /\ LET child_cursor == visitQ[k]
           c      == child_cursor.id
           parent == last_parent
           r      == _add_child(parent, create_entity(c))
           skip   == visitor_filters(c)
           queued == IF skip THEN <<>>
                     ELSE IF tree[c].kind = "LinkageSpec"
                     THEN <<linkage_item(child_cursor, parent)>>
                     ELSE IF r.ret # None
                     THEN <<[cur |-> child_cursor, ent |-> r.ret]>>
                     ELSE <<>>
           acts   == ~skip /\ tree[c].kind # "LinkageSpec"
           failed == acts /\ r.branch = "assert"
           fresh  == acts /\ r.branch = "install"
       IN  /\ pinned' = pinned \cup {child_cursor}
           /\ visitQ' = IF failed THEN <<>>
                         ELSE [j \in 1..(Len(visitQ) - 1) |->
                                 IF j < k THEN visitQ[j] ELSE visitQ[j + 1]]
           /\ worklist' = IF failed THEN worklist ELSE worklist \o queued
           /\ pc' = IF failed THEN "failed" ELSE pc
           /\ failure' = IF failed THEN "assertion" ELSE failure
           /\ children' = IF fresh
                          THEN [children EXCEPT ![parent] = Append(@, c)] @@ (c :> <<>>)
                          ELSE children
           /\ entCursor' = IF fresh THEN entCursor @@ (c :> child_cursor) ELSE entCursor
           /\ parentRef' = IF fresh THEN parentRef @@ (c :> parent) ELSE parentRef
           /\ factory_memo' = IF skip \/ tree[c].kind = "LinkageSpec" THEN factory_memo
                               ELSE factory_memo_after(factory_memo, c)
           /\ warnings' = IF acts /\ r.branch = "redeclaration"
                          THEN Append(warnings,
                                 [at |-> c,
                                  previous |-> entCursor[ChildByKey(parent, key_in_scope(c))].id])
                          ELSE warnings
           /\ hist' = IF hist.run = 2 THEN hist ELSE
                       [hist EXCEPT
                         !.visited = @ \cup {c},
                         !.trail = Append(@, c),
                         !.under = @ @@ (c :> parent),
                         !.assigned = IF fresh THEN Append(@, c) ELSE @,
                         !.queued = IF failed THEN @
                                    ELSE @ \o [j \in 1..Len(queued) |-> queued[j].cur.id],
                         !.branch = @ @@ (c :> IF skip THEN "filtered"
                                               ELSE IF tree[c].kind = "LinkageSpec"
                                               THEN "linkage" ELSE r.branch)]
    /\ UNCHANGED <<tree, tuGen, scanPos, explicit_instantiation,
                   implicit_instantiation, init_code, last_parent, notes, doc>>

\* clang_visitChildren enumerates the children in source order
WalkVisit == visitQ # <<>> /\ VisitAt(1)

\* the while loop ends: the worklist is empty
WalkDone ==
    /\ pc = "walk"
    /\ visitQ = <<>>
    /\ worklist = <<>>
    /\ pc' = "done"
    /\ UNCHANGED <<tree, tuGen, failure, scanPos, explicit_instantiation,
                   implicit_instantiation, init_code, pinned, worklist, last_parent,
                   visitQ, children, entCursor, parentRef, warnings, notes, hist>>
    /\ UNCHANGED <<factory_memo, doc>>

(***************************************************************************)
(* The inputs: the AST provider parses the headers into a cursor tree,     *)
(* then EntityTree(gu) is constructed on it.                               *)
(***************************************************************************)
\* nothing has happened yet; family names the headers the parser reads
NoHistory(family) ==
    [parsed |-> 0, scanned |-> {}, visited |-> {}, trail |-> <<>>,
     under |-> <<>>, branch |-> <<>>, mapped |-> <<>>, reloads |-> 0,
     assigned |-> <<>>, queued |-> <<>>, family |-> family, run |-> 1,
     first |-> <<>>]

\* no EntityTree is under construction
NoConstruction ==
    /\ tree = <<>>
    /\ tuGen = 0
    /\ pc = "parse"
    /\ failure = "none"
    /\ scanPos = 1
    /\ explicit_instantiation = {}
    /\ implicit_instantiation = <<>>
    /\ init_code = <<>>
    /\ pinned = {}
    /\ worklist = <<>>
    /\ last_parent = None
    /\ visitQ = <<>>
    /\ children = (0 :> <<>>)
    /\ entCursor = <<>>
    /\ parentRef = <<>>
    /\ warnings = <<>>
    /\ notes = <<>>
    /\ factory_memo = {}

\* a fresh process that has not parsed anything yet
FreshProcess == NoConstruction /\ doc = [pc |-> "none"]

Init == FreshProcess /\ hist = NoHistory("scopes")

\* the headers declare functions, parameters and variables
InitFn == FreshProcess /\ hist = NoHistory("functions")

\* the headers declare namespaces, extern "C" blocks and classes
InitScopes == FreshProcess /\ hist = NoHistory("nesting")

\* the parser meets the next declaration of the headers
ParseCursor ==
    /\ pc = "parse"
    /\ Len(tree) < MaxCursors
    /\ \E cur \in NextCursors(tree) : tree' = Append(tree, cur)
    /\ UNCHANGED <<tuGen, pc, failure, scanPos, explicit_instantiation,
                   implicit_instantiation, init_code, pinned, worklist, last_parent,
                   visitQ, children, entCursor, parentRef, warnings, notes, hist>>
    /\ UNCHANGED <<factory_memo, doc>>

\* EntityTree.__init__ up to the call of _inject_explicit_template_instantiation
Construct ==
    /\ pc = "parse"
    /\ pc' = "scan"
    /\ hist' = [hist EXCEPT !.parsed = Len(tree)]
    /\ UNCHANGED <<tree, tuGen, failure, scanPos, explicit_instantiation,
                   implicit_instantiation, init_code, pinned, worklist, last_parent,
                   visitQ, children, entCursor, parentRef, warnings, notes>>
    /\ UNCHANGED <<factory_memo, doc>>

Next ==
    \/ ParseCursor
    \/ Construct
    \/ ScanVisit
    \/ ReloadTU
    \/ StartWalk
    \/ PopItem
    \/ WalkVisit
    \/ WalkDone

Spec == Init /\ [][Next]_vars

SpecFn == InitFn /\ [][Next]_vars

\* the tree a finished construction leaves behind: the children dicts in
\* insertion order, the cursor each Entity wraps, the back-references, and
\* the warnings in the order they were logged
BuiltTree ==
    [children |-> children,
     wraps    |-> [e \in DOMAIN entCursor |-> entCursor[e].id],
     parents  |-> parentRef,
     warnings |-> warnings]

\* the same process constructs an EntityTree a second time, on a GenUnit that
\* parsed the same headers with the same inputs; the first tree is remembered
Rebuild ==
    /\ pc = "done"
    /\ hist.run = 1
    /\ hist' = [NoHistory(hist.family) EXCEPT
                  !.parsed = hist.parsed, !.run = 2, !.first = BuiltTree]
    /\ tree' = SubSeq(tree, 1, hist.parsed)
    /\ tuGen' = tuGen + 1
    /\ pc' = "scan"
    /\ failure' = "none"
    /\ scanPos' = 1
    /\ explicit_instantiation' = {}
    /\ implicit_instantiation' = <<>>
    /\ init_code' = <<>>
    /\ pinned' = {}
    /\ worklist' = <<>>
    /\ last_parent' = None
    /\ visitQ' = <<>>
    /\ children' = (0 :> <<>>)
    /\ entCursor' = <<>>
    /\ parentRef' = <<>>
    /\ warnings' = <<>>
    /\ notes' = <<>>
    /\ UNCHANGED <<factory_memo, doc>>

NextTwice ==
    \/ Next
    \/ Rebuild

SpecTwice == InitFn /\ [][NextTwice]_vars

\* the second construction under another traversal order: the loop takes any
\* worklist item, and the children of a cursor are enumerated in any order
PopAny ==
    /\ hist.run = 2
    /\ \E i \in 1..Len(worklist) : PopAt(i)

VisitAny ==
    /\ hist.run = 2
    /\ \E k \in 1..Len(visitQ) : VisitAt(k)

NextAnyOrder ==
    \/ Next
    \/ Rebuild
    \/ PopAny
    \/ VisitAny

SpecAnyOrder == InitScopes /\ [][NextAnyOrder]_vars

(***************************************************************************)
(* entity_base._inject_docstring.  A string is the sequence of its         *)
(* characters; the two delimiters of the raw string literal are one        *)
(* element each.                                                           *)
(***************************************************************************)
CodeChars == {"m", "(", ")"}

RECURSIVE StringsUpTo(_)
StringsUpTo(n) ==
    IF n = 0 THEN {<<>>}
    ELSE LET shorter == StringsUpTo(n - 1)
         IN  shorter \cup {Append(s, ch) : s \in shorter, ch \in CodeChars}

\* cursor.raw_comment: None or empty (both falsy) or the text of the comment
RawComments == {<<>>, <<"d">>}

InsertModes == {"append", "last_arg", "none"}

\* str.rfind(ch): the highest 0-based index of ch, or -1
rfind(s, ch) ==
    LET at == {i \in 1..Len(s) : s[i] = ch}
    IN  IF at = {} THEN -1 ELSE (CHOOSE i \in at : \A j \in at : j <= i) - 1

\* where a slice bound pos falls in a string of length n: a negative bound
\* counts from the end
SliceBound(n, pos) ==
    IF pos < 0 THEN (IF n + pos < 0 THEN 0 ELSE n + pos)
    ELSE (IF pos > n THEN n ELSE pos)

\* s[:pos] and s[pos:]
SliceTo(s, pos)   == SubSeq(s, 1, SliceBound(Len(s), pos))
SliceFrom(s, pos) == SubSeq(s, SliceBound(Len(s), pos) + 1, Len(s))

\* f',R"_pb11_weaver({cursor.raw_comment})_pb11_weaver"'
CommentLiteral(raw_comment) ==
    <<",", "R\"_pb11_weaver(">> \o raw_comment \o <<")_pb11_weaver\"">>

_inject_docstring(code, raw_comment, insert_mode) ==
    IF raw_comment = <<>> THEN code
    ELSE LET appended == IF insert_mode = "append"
                         THEN code \o CommentLiteral(raw_comment)
                         ELSE code
             pos      == rfind(appended, ")")
         IN  IF insert_mode = "last_arg"
             THEN SliceTo(appended, pos) \o CommentLiteral(raw_comment)
                     \o SliceFrom(appended, pos)
             ELSE appended

\* a concrete Entity is about to call _inject_docstring
InitDoc ==
    /\ NoConstruction
    /\ hist = NoHistory("none")
    /\ doc \in {[pc |-> "call", code |-> c, raw_comment |-> r, insert_mode |-> m,
                  out |-> <<>>] :
                    c \in StringsUpTo(MaxCodeLen), r \in RawComments, m \in InsertModes}

InjectDocstring ==
    /\ doc.pc = "call"
    /\ doc' = [doc EXCEPT !.pc = "returned",
                          !.out = _inject_docstring(doc.code, doc.raw_comment,
                                                    doc.insert_mode)]
    /\ UNCHANGED <<tree, tuGen, pc, failure, scanPos, explicit_instantiation,
                   implicit_instantiation, init_code, pinned, worklist, last_parent,
                   visitQ, children, entCursor, parentRef, warnings, notes,
                   factory_memo, hist>>

NextDoc == InjectDocstring

SpecDoc == InitDoc /\ [][NextDoc]_vars

(***************************************************************************)
(* Definitions shared by the properties                                    *)
(***************************************************************************)
Entities == DOMAIN entCursor

KeysOf(es) == {key_in_scope(e) : e \in es}

\* the in-input children of cursor c, with extern "C" blocks flattened: the
\* cursors that are mapped to the Entity c's children are mapped to
RECURSIVE Flat(_)
Flat(c) ==
    UNION { IF ~tree[d].inp THEN {}
            ELSE IF tree[d].kind = "LinkageSpec" THEN Flat(d)
            ELSE {d}
            : d \in SeqRange(ChildSeq(tree, c)) }

Bindable(cs) == {c \in cs : tree[c].kind \in BindableKinds}

\* position of cursor c in the order in which the walk's visitor met the cursors
TrailPos(c) == CHOOSE i \in 1..Len(hist.trail) : hist.trail[i] = c

Siblings(c1, c2) ==
    /\ c1 < c2
    /\ tree[c1].parent = tree[c2].parent
    /\ tree[c1].inp /\ tree[c2].inp
    /\ key_in_scope(c1) = key_in_scope(c2)

(***************************************************************************)
(* C3.  The namespace-merge assertion of _add_child never fails: whenever  *)
(* the walk's visitor meets an in-input namespace cursor whose scope key   *)
(* already exists under the destination parent, the existing namespace     *)
(* Entity has no children yet.                                             *)
(***************************************************************************)
C3_NamespaceMergeFindsNoChildren ==
    (pc = "walk" /\ visitQ # <<>>) =>
        LET c   == Head(visitQ).id
            old == ChildByKey(last_parent, key_in_scope(c))
        IN  (tree[c].inp /\ tree[c].kind = "Namespace" /\ old # None)
                => Len(children[old]) = 0

(***************************************************************************)
(* C4.  Input filtering: in every state every Entity wraps a cursor inside *)
(* the inputs, every queued cursor is inside the inputs, and no cursor     *)
(* below a filtered-out cursor is handed to the walk's visitor, queued or  *)
(* turned into an Entity.                                                  *)
(***************************************************************************)
AllAncestorsInInputs(c) == \A a \in AncestorsIn(tree, c) \ {0} : tree[a].inp

C4_InputFiltering ==
    /\ \A e \in Entities : tree[e].inp /\ AllAncestorsInInputs(e)
    /\ \A c \in hist.visited : AllAncestorsInInputs(c)
    /\ \A i \in 1..Len(worklist) :
          LET c == worklist[i].cur.id
          IN  c # 0 => tree[c].inp /\ AllAncestorsInInputs(c)

\* the walk ended on a tree with an in-input declaration below a filtered-out cursor
C4_Witness ==
    /\ pc = "done"
    /\ Entities # {}
    /\ \E c \in hist.visited : \E d \in 1..Len(tree) :
          ~tree[c].inp /\ tree[d].parent = c /\ tree[d].inp /\ d \notin hist.visited

(***************************************************************************)
(* C7.  Pass ordering: the walk starts only after the normalization scan   *)
(* has run over the whole tree, once, and its re-parse has completed; no   *)
(* Entity exists and no worklist item is queued or processed before that.  *)
(***************************************************************************)
ScanComplete ==
    hist.scanned = {c \in 1..hist.parsed : AllAncestorsInInputs(c)}

WalkUntouched ==
    /\ Entities = {}
    /\ worklist = <<>> /\ visitQ = <<>>
    /\ hist.mapped = <<>> /\ hist.visited = {}
    /\ children = (0 :> <<>>)

C7_PassOrdering ==
    /\ hist.reloads <= 1
    /\ hist.reloads = 0 => WalkUntouched
    /\ (pc \in {"walk", "done"} \/ ~WalkUntouched)
          => hist.reloads = 1 /\ tuGen = 1 /\ ScanComplete
    /\ pc = "reloaded" => ScanComplete

\* a construction that scanned, re-parsed, walked and built Entities
C7_Witness ==
    pc = "done" /\ Entities # {} /\ hist.reloads = 1 /\ Cardinality(hist.scanned) >= 2

(***************************************************************************)
(* C8.  No cursor crosses a re-parse: once reload_tu has replaced the      *)
(* translation unit, the root cursor, every queued cursor and every        *)
(* Entity's cursor belong to the new translation unit, and the normalizer  *)
(* has kept type names only.                                               *)
(***************************************************************************)
TypeNames == {"A", "Box<int>", "Ext<int>", "int", "none"}

C8_NoCursorAcrossReparse ==
    hist.reloads >= 1 =>
        /\ EntityTree_cursor.tu = tuGen
        /\ \A e \in Entities : entCursor[e].tu = tuGen
        /\ \A i \in 1..Len(worklist) : worklist[i].cur.tu = tuGen
        /\ \A i \in 1..Len(visitQ) : visitQ[i].tu = tuGen
        /\ explicit_instantiation \subseteq TypeNames
        /\ DictKeys(implicit_instantiation) \subseteq TypeNames
        /\ DictKeys(init_code) \subseteq TypeNames

\* a tree of Entities was built after a re-parse that added a stub
C8_Witness ==
    pc = "done" /\ hist.reloads = 1 /\ Entities # {} /\ Len(tree) > hist.parsed

(***************************************************************************)
(* C9.  TU pin release: after the normalizer's visitor has ended, normally *)
(* or by an exception, no cursor of the scanned translation unit still     *)
(* holds the pin _inject_tu placed on it.                                  *)
(***************************************************************************)
C9_PinReleasedOnEveryExit == \A p \in pinned : p.tu # 0

(***************************************************************************)
(* C10.  extern "C" flattening: no Entity wraps a linkage-spec cursor, and *)
(* every child of a linkage-spec block is handled under the destination    *)
(* the linkage-spec cursor itself was met under; when installed, that      *)
(* destination is its parent.                                              *)
(***************************************************************************)
C10_LinkageSpecFlattened ==
    /\ \A e \in Entities : tree[e].kind # "LinkageSpec"
    /\ \A i \in 1..Len(worklist) :
          LET it == worklist[i]
          IN  (it.cur.id # 0 /\ tree[it.cur.id].kind = "LinkageSpec")
                 => it.ent = hist.under[it.cur.id]
    /\ \A c \in hist.visited :
          LET p == tree[c].parent
          IN  (p # 0 /\ tree[p].kind = "LinkageSpec") =>
                 /\ p \in hist.visited
                 /\ hist.under[c] = hist.under[p]
                 /\ c \in Entities =>
                       /\ parentRef[c] = hist.under[p]
                       /\ c \in SeqRange(children[hist.under[p]])

\* an Entity was installed from inside an extern "C" block nested in another
\* one, itself inside a namespace
C10_Witness ==
    /\ pc = "done"
    /\ \E c \in Entities :
          LET p == tree[c].parent
          IN  /\ p # 0 /\ tree[p].kind = "LinkageSpec"
              /\ tree[p].parent # 0 /\ tree[tree[p].parent].kind = "LinkageSpec"
              /\ parentRef[c] # 0

(***************************************************************************)
(* C5.  Explicit wins: at no point of the scan, and not after it, is a     *)
(* type name both in the explicit set and a key of the implicit map, and   *)
(* the fragment passed to the re-parse holds no stub for a specialization  *)
(* whose explicit form the scan has met, before or after the implicit use. *)
(***************************************************************************)
\* the explicit forms the scan has met in the translation unit as first parsed
ScannedExplicit ==
    {tree[c].type : c \in {x \in hist.scanned : /\ x <= hist.parsed
                                                /\ tree[x].inp
                                                /\ tree[x].kind \in ClassKinds
                                                /\ tree[x].tmpl}}

C5_ExplicitWins ==
    /\ explicit_instantiation \cap DictKeys(implicit_instantiation) = {}
    /\ explicit_instantiation = ScannedExplicit
    /\ hist.reloads >= 1 => DictKeys(init_code) \cap ScannedExplicit = {}

\* the scan ended after meeting an implicit use and, later, the explicit form
C5_Witness ==
    /\ hist.reloads = 1
    /\ \E u \in hist.scanned : \E e \in hist.scanned :
          /\ u < e
          /\ tree[u].inp /\ tree[u].kind = "TemplateRef" /\ tree[u].refIn
          /\ tree[e].inp /\ tree[e].kind \in ClassKinds /\ tree[e].tmpl
          /\ tree[tree[u].parent].type = tree[e].type

(***************************************************************************)
(* C6.  Implicit template rescue: for a specialization of an in-input      *)
(* template that the scan meets as the type of a field, parameter or base  *)
(* specifier, with no explicit form in the translation unit, the fragment  *)
(* passed to the re-parse holds its extern template stub, and the tree     *)
(* built after the re-parse holds an Entity for the specialization.        *)
(***************************************************************************)
\* the specializations C6 is about
RescuedTypes ==
    {tree[tree[u].parent].type :
        u \in {x \in hist.scanned :
                 /\ x <= hist.parsed
                 /\ tree[x].inp /\ tree[x].kind = "TemplateRef" /\ tree[x].refIn
                 /\ tree[tree[x].parent].kind
                       \in {"FieldDecl", "ParmDecl", "CXXBaseSpecifier"}
                 /\ TypeIsConcreteTemplate(tree[tree[x].parent].type)
                 /\ TemplateDefInInputs(tree[tree[x].parent].type)
                 /\ ~\E e \in 1..hist.parsed :
                        /\ tree[e].kind \in ClassKinds /\ tree[e].tmpl
                        /\ tree[e].type = tree[tree[x].parent].type}}

C6_ImplicitTemplateRescue ==
    /\ pc = "scan" => RescuedTypes \subseteq DictKeys(implicit_instantiation)
    /\ hist.reloads >= 1 =>
          \A ty \in RescuedTypes :
             \E i \in 1..Len(init_code) :
                /\ init_code[i][1] = ty
                /\ init_code[i][2] \in {"extern template struct", "extern template class"}
    /\ pc = "done" =>
          \A ty \in RescuedTypes :
             \E e \in Entities : /\ key_in_scope(e) = <<ty>>
                                 /\ tree[e].tmpl
                                 /\ entCursor[e].tu = tuGen

\* the tree was built for a header with an implicit use only
C6_Witness ==
    pc = "done" /\ RescuedTypes # {}

(***************************************************************************)
(* C1.  Namespace merge.                                                   *)
(***************************************************************************)
DirectIn(c) == {d \in SeqRange(ChildSeq(tree, c)) : tree[d].inp}

NamespaceSiblings(c1, c2) ==
    /\ Siblings(c1, c2)
    /\ tree[c1].kind = "Namespace" /\ tree[c2].kind = "Namespace"

\* every in-input namespace cursor with c's key below c's parent cursor
Reopenings(c) ==
    {d \in DirectIn(tree[c].parent) :
        tree[d].kind = "Namespace" /\ key_in_scope(d) = key_in_scope(c)}

NumberWithKey(D, k) == Cardinality({e \in SeqRange(children[D]) : key_in_scope(e) = k})

\* the cursors whose children are mapped to Entity E: E's own cursor, and for a
\* namespace every cursor of that namespace met under E's parent
RECURSIVE MergedInto(_)
MergedInto(E) ==
    IF tree[E].kind # "Namespace" THEN {E}
    ELSE LET D    == parentRef[E]
             from == IF D = 0 THEN Flat(0) ELSE UNION {Flat(c) : c \in MergedInto(D)}
         IN  {c \in from : tree[c].kind = "Namespace" /\ key_in_scope(c) = key_in_scope(E)}

\* C1 as stated: for sibling namespace cursors with the same scope key, the
\* finished tree holds exactly one Entity for the key under the parent, and its
\* children keys are the union of the keys of the in-input bindable children
\* of the reopenings.
C1_ChildrenOfReopeningsOnly ==
    pc = "done" =>
        \A c1 \in hist.visited : \A c2 \in hist.visited :
            NamespaceSiblings(c1, c2) =>
                LET D == hist.under[c1]
                    E == ChildByKey(D, key_in_scope(c1))
                IN  /\ E # None
                    /\ NumberWithKey(D, key_in_scope(c1)) = 1
                    /\ KeysOf(SeqRange(children[E])) =
                          KeysOf(Bindable(UNION {DirectIn(c) : c \in Reopenings(c1)}))

\* C1 amended: for sibling namespace cursors with the same scope key, the
\* finished tree holds exactly one Entity for the key under the destination
\* parent, both cursors are merged into it, and its children keys are the
\* union of the keys of the in-input bindable declarations of every namespace
\* cursor merged into it, the declarations inside extern "C" blocks included.
C1_NamespaceMerge ==
    pc = "done" =>
        \A c1 \in hist.visited : \A c2 \in hist.visited :
            NamespaceSiblings(c1, c2) =>
                LET D == hist.under[c1]
                    E == ChildByKey(D, key_in_scope(c1))
                IN  /\ E # None
                    /\ tree[E].kind = "Namespace"
                    /\ NumberWithKey(D, key_in_scope(c1)) = 1
                    /\ {c1, c2} \subseteq MergedInto(E)
                    /\ KeysOf(SeqRange(children[E])) =
                          KeysOf(Bindable(UNION {Flat(c) : c \in MergedInto(E)}))
                    /\ KeysOf(Bindable(DirectIn(c1) \cup DirectIn(c2)))
                          \subseteq KeysOf(SeqRange(children[E]))

\* a namespace opened twice, each time with a declaration the other lacks
C1_Witness ==
    /\ pc = "done"
    /\ \E c1 \in hist.visited : \E c2 \in hist.visited :
          /\ NamespaceSiblings(c1, c2)
          /\ KeysOf(Bindable(DirectIn(c1))) \ KeysOf(Bindable(DirectIn(c2))) # {}
          /\ KeysOf(Bindable(DirectIn(c2))) \ KeysOf(Bindable(DirectIn(c1))) # {}
          /\ Len(children[ChildByKey(hist.under[c1], key_in_scope(c1))]) = 2

(***************************************************************************)
(* C2.  Redeclaration dedup.                                               *)
(***************************************************************************)
\* c1 is the first, c2 a later in-input declaration of one key, not a
\* namespace, below one parent cursor
Redeclared(c1, c2) ==
    /\ Siblings(c1, c2)
    /\ tree[c1].kind \in BindableKinds \ {"Namespace"}
    /\ tree[c2].kind \in BindableKinds \ {"Namespace"}
    /\ ~\E c0 \in DirectIn(tree[c1].parent) :
          c0 < c1 /\ key_in_scope(c0) = key_in_scope(c1)

WarningsAt(c) == {i \in 1..Len(warnings) : warnings[i].at = c}

\* the first cursor with key k the walk met under destination D
FirstMet(D, k) ==
    LET met == {c \in Bindable(hist.visited) :
                  tree[c].inp /\ hist.under[c] = D /\ key_in_scope(c) = k}
    IN  CHOOSE c \in met : \A d \in met : TrailPos(c) <= TrailPos(d)

\* C2 as stated: the finished tree holds exactly one Entity for the key, it
\* wraps the first of the two cursors, the second is discarded, and exactly
\* one warning naming both cursors is recorded for the discarded one.
C2_FirstSiblingKept ==
    pc = "done" =>
        \A c1 \in hist.visited : \A c2 \in hist.visited :
            Redeclared(c1, c2) =>
                LET D == hist.under[c1]
                IN  /\ NumberWithKey(D, key_in_scope(c1)) = 1
                    /\ ChildByKey(D, key_in_scope(c1)) = c1
                    /\ c2 \notin Entities
                    /\ Cardinality(WarningsAt(c2)) = 1
                    /\ \A i \in WarningsAt(c2) : warnings[i].previous = c1

\* C2 amended: the finished tree holds exactly one Entity for the key under
\* the destination parent; it wraps the first cursor with that key the walk
\* met under that destination, which is the first of the two unless a
\* declaration of the key reached the destination from another extern "C"
\* block or namespace reopening; the second is discarded, and exactly one
\* warning is recorded for it, naming it and the kept Entity's cursor.
C2_RedeclarationDedup ==
    pc = "done" =>
        \A c1 \in hist.visited : \A c2 \in hist.visited :
            Redeclared(c1, c2) =>
                LET D == hist.under[c1]
                    k == key_in_scope(c1)
                    E == ChildByKey(D, k)
                    elsewhere == {c \in Bindable(hist.visited) :
                                    /\ tree[c].inp /\ hist.under[c] = D
                                    /\ key_in_scope(c) = k
                                    /\ tree[c].parent # tree[c1].parent}
                IN  /\ hist.under[c2] = D
                    /\ NumberWithKey(D, k) = 1
                    /\ E = FirstMet(D, k)
                    /\ E \in {c1} \cup elsewhere
                    /\ elsewhere = {} => E = c1
                    /\ c2 \notin Entities
                    /\ Cardinality(WarningsAt(c2)) = 1
                    /\ \A i \in WarningsAt(c2) : warnings[i].previous = E
                    /\ E # c1 => /\ c1 \notin Entities
                                 /\ Cardinality(WarningsAt(c1)) = 1

\* a class declared twice in one scope: the first kept, one warning for the second
C2_Witness ==
    /\ pc = "done"
    /\ \E c1 \in hist.visited : \E c2 \in hist.visited :
          /\ Redeclared(c1, c2)
          /\ c1 \in Entities
          /\ warnings = <<[at |-> c2, previous |-> c1]>>

(***************************************************************************)
(* C11.  Overload distinction: sibling function cursors that share a name  *)
(* and differ in their parameter types have different scope keys; no       *)
(* warning pairs one with the other, and each of them that is the first    *)
(* cursor with its key under the destination parent is installed there as  *)
(* its own Entity, with no warning.                                        *)
(***************************************************************************)
\* the parameter types of function cursor c, in order
ParamTypes(c) ==
    LET IsParm(j) == tree[j].kind = "ParmDecl"
        args == SelectSeq(ChildSeq(tree, c), IsParm)
    IN  [i \in 1..Len(args) |-> tree[args[i]].type]

Overloads(c1, c2) ==
    /\ c1 < c2
    /\ tree[c1].kind = "FunctionDecl" /\ tree[c2].kind = "FunctionDecl"
    /\ tree[c1].inp /\ tree[c2].inp
    /\ tree[c1].parent = tree[c2].parent
    /\ tree[c1].name = tree[c2].name
    /\ ParamTypes(c1) # ParamTypes(c2)

ImplicitCallsOnFunctions ==
    {u \in hist.scanned :
        /\ tree[u].inp /\ tree[u].kind = "TemplateRef" /\ tree[u].refIn
        /\ KindIn(tree, tree[u].parent) \in {"FunctionDecl", "CXXMethod"}}

C13_EveryFunctionCandidateRecorded ==
    failure = "none" =>
        \A u \in ImplicitCallsOnFunctions :
            LET cands == possible_instances(tree[u].parent)
            IN  \A i \in 1..Len(cands) :
                    (/\ TypeIsConcreteTemplate(cands[i])
                     /\ TemplateDefInInputs(cands[i])
                     /\ cands[i] \notin explicit_instantiation)
                    => cands[i] \in DictKeys(implicit_instantiation)

(***************************************************************************)
(* C14.  Sibling traversal order and the result.                           *)
(***************************************************************************)
\* the scope-key path from the root to Entity e, along back-references par
RECURSIVE PathIn(_, _)
PathIn(par, e) ==
    IF par[e] = 0 THEN <<key_in_scope(e)>>
    ELSE Append(PathIn(par, par[e]), key_in_scope(e))

PathsIn(par) == {PathIn(par, e) : e \in DOMAIN par}

CursorDepth(c) == Cardinality(AncestorsIn(tree, c))

C15_WorklistProcessedBreadthFirst ==
    \A i \in 1..Len(hist.mapped) : \A j \in 1..Len(hist.mapped) :
        i < j =>
            LET ci == hist.mapped[i][1]
                cj == hist.mapped[j][1]
            IN  /\ CursorDepth(ci) <= CursorDepth(cj)
                /\ (ci # 0 /\ cj # 0 /\ tree[ci].parent = tree[cj].parent) => ci < cj

(***************************************************************************)
(* C16.  No descent into a redeclaration: a non-namespace cursor rejected  *)
(* because its scope key already exists under the destination parent is    *)
(* never queued, none of its descendant cursors is ever visited, and the   *)
(* children of the Entity that was kept all come from the children of the  *)
(* cursor that Entity wraps.                                               *)
(***************************************************************************)
Rejected == {c \in hist.visited : hist.branch[c] = "redeclaration"}

C16_NoDescentIntoRedeclaration ==
    /\ \A c \in Rejected :
          /\ \A i \in 1..Len(worklist) : worklist[i].cur.id # c
          /\ \A i \in 1..Len(hist.mapped) : hist.mapped[i][1] # c
          /\ \A d \in hist.visited : c \notin AncestorsIn(tree, d)
          /\ LET E == ChildByKey(hist.under[c], key_in_scope(c))
             IN  /\ E \in Entities
                 /\ E # c
                 /\ SeqRange(children[E]) \subseteq Flat(entCursor[E].id)
    /\ \A E \in Entities :
          tree[E].kind # "Namespace" => SeqRange(children[E]) \subseteq Flat(E)

\* class A { }; class A { class A { }; };  the member of the second A is never met
C16_Witness ==
    /\ pc = "done"
    /\ \E c \in Rejected : \E d \in Bindable(DirectIn(c)) :
          /\ d \notin hist.visited
          /\ children[ChildByKey(hist.under[c], key_in_scope(c))] = <<>>

(***************************************************************************)
(* C17.  Parent/child consistency: in every reachable state of the walk    *)
(* each installed Entity is stored in exactly one parent, once, under its  *)
(* own scope key; its back-reference names that parent and was assigned    *)
(* exactly once; every worklist destination is the root or an installed    *)
(* Entity; and a candidate that was discarded, or replaced by the existing *)
(* namespace Entity, has no back-reference.                                *)
(***************************************************************************)
\* the parents whose children dict holds Entity e
HoldersOf(e) == {D \in DOMAIN children : e \in SeqRange(children[D])}

\* how many times a back-reference was assigned to the Entity made for cursor c
TimesAssigned(c) == Cardinality({i \in 1..Len(hist.assigned) : hist.assigned[i] = c})

\* the cursors whose candidate Entity was not installed
NotInstalled == {c \in hist.visited : hist.branch[c] # "install"}

C17_ParentChildConsistency ==
    /\ DOMAIN children = Entities \cup {0}
    /\ DOMAIN parentRef = Entities
    /\ \A e \in Entities :
          /\ HoldersOf(e) = {parentRef[e]}
          /\ Cardinality({i \in 1..Len(children[parentRef[e]]) :
                             children[parentRef[e]][i] = e}) = 1
          /\ NumberWithKey(parentRef[e], key_in_scope(e)) = 1
          /\ ChildByKey(parentRef[e], key_in_scope(e)) = e
          /\ TimesAssigned(e) = 1
    /\ \A i \in 1..Len(worklist) : worklist[i].ent \in Entities \cup {0}
    /\ last_parent \in Entities \cup {0, None}
    /\ \A c \in NotInstalled : c \notin DOMAIN parentRef /\ TimesAssigned(c) = 0

\* a finished walk that installed nested Entities, merged a namespace
\* reopening and discarded a redeclaration
C17_Witness ==
    /\ pc = "done"
    /\ \E e \in Entities : parentRef[e] # 0
    /\ \E c \in NotInstalled : hist.branch[c] = "namespace"
    /\ \E c \in NotInstalled : hist.branch[c] = "redeclaration"

(***************************************************************************)
(* C18.  Static bookkeeping reset: when the normalization pass has         *)
(* triggered the re-parse, the process-wide bookkeeping of the Entity      *)
(* factories is empty, so the walk that follows starts with empty          *)
(* bookkeeping.                                                            *)
(***************************************************************************)
C18_WalkStartsWithEmptyBookkeeping ==
    pc = "reloaded" => factory_memo = {}

(***************************************************************************)
(* C19.  Unsupported implicit-template context: when the scan's visitor    *)
(* calls handle_implicit with a parent that is neither a field, a          *)
(* parameter, a base specifier, a function nor a method, the step only     *)
(* adds one informational note naming that parent: the explicit set and    *)
(* the implicit map stay as they are, nothing fails, and the scan goes on  *)
(* with the next cursor.                                                   *)
(***************************************************************************)
\* the visitor is about to call handle_implicit for cursor u, whose parent is
\* of a kind handle_implicit has no branch for
UnsupportedImplicitCall(u) ==
    /\ pc = "scan"
    /\ u = scanPos
    /\ u <= Len(tree)
    /\ tree[u].inp /\ tree[u].kind = "TemplateRef" /\ tree[u].refIn
    /\ KindIn(tree, tree[u].parent) \notin
          {"FieldDecl", "ParmDecl", "CXXBaseSpecifier", "FunctionDecl", "CXXMethod"}

C19_UnsupportedContextOnlyNoted ==
    [][ \A u \in 1..Len(tree) :
          UnsupportedImplicitCall(u) =>
              /\ explicit_instantiation' = explicit_instantiation
              /\ implicit_instantiation' = implicit_instantiation
              /\ notes' = Append(notes, tree[u].parent)
              /\ failure' = "none"
              /\ pc' = "scan"
              /\ scanPos' = u + 1 ]_vars

\* Box<int> v;  at file scope: one note, no stub, and the construction finished
C19_Witness ==
    /\ pc = "done"
    /\ Len(notes) = 1
    /\ tree[notes[1]].kind = "VarDecl"
    /\ init_code = <<>>
    /\ explicit_instantiation = {}

(***************************************************************************)
(* C20.  Doc-comment injection: with no raw comment _inject_docstring      *)
(* returns the fragment unchanged in every insertion mode; with a comment, *)
(* mode "append" returns the fragment followed by the comment literal, and *)
(* mode "last_arg" returns the fragment with the comment literal inserted  *)
(* immediately before its final closing parenthesis and every other        *)
(* character kept in place, for every code fragment.                       *)
(***************************************************************************)
\* out is code with the literal put immediately before code's last ")"
InsertedBeforeFinalParen(code, lit, out) ==
    \E p \in 1..Len(code) :
        /\ code[p] = ")"
        /\ \A q \in (p + 1)..Len(code) : code[q] # ")"
        /\ out = SubSeq(code, 1, p - 1) \o lit \o SubSeq(code, p, Len(code))

C20_DocstringInjected ==
    doc.pc = "returned" =>
        LET lit == CommentLiteral(doc.raw_comment)
        IN  /\ doc.raw_comment = <<>> => doc.out = doc.code
            /\ (doc.raw_comment # <<>> /\ doc.insert_mode = "append")
                  => doc.out = doc.code \o lit
            /\ (doc.raw_comment # <<>> /\ doc.insert_mode = "last_arg")
                  => InsertedBeforeFinalParen(doc.code, lit, doc.out)

(***************************************************************************)
(* C21.  The walk terminates and is complete: no cursor is queued or       *)
(* visited more than once; once the walk has started it stops only by      *)
(* leaving the loop with the worklist empty; and then every in-input       *)
(* cursor whose ancestors were all accepted (installed, merged as a        *)
(* namespace, or flattened as extern "C") has been visited exactly once,   *)
(* whatever redeclaration warnings were logged before.                     *)
(***************************************************************************)
TimesQueued(c)  == Cardinality({i \in 1..Len(hist.queued) : hist.queued[i] = c})
TimesVisited(c) == Cardinality({i \in 1..Len(hist.trail) : hist.trail[i] = c})

\* the walk's visitor accepted cursor a: its children are to be mapped
Accepted(a) ==
    a \in hist.visited /\ hist.branch[a] \in {"install", "namespace", "linkage"}

\* the in-input cursors all of whose ancestors were accepted
Reachable ==
    {c \in 1..Len(tree) :
        tree[c].inp /\ \A a \in AncestorsIn(tree, c) \ {0} : Accepted(a)}

WalkStarted == hist.mapped # <<>>

\* the part of C21 that does not depend on how the walk ends
C21_AtMostOnce ==
    \A c \in 1..Len(tree) : TimesQueued(c) <= 1 /\ TimesVisited(c) <= 1

\* the walk has stopped by leaving the loop, and nothing reachable was missed
C21_Complete ==
    pc = "done" => \A c \in Reachable : TimesVisited(c) = 1 /\ TimesQueued(c) <= 1

C21_WalkTerminatesAndIsComplete ==
    /\ C21_AtMostOnce
    /\ (WalkStarted /\ pc # "walk") => (pc = "done" /\ worklist = <<>> /\ visitQ = <<>>)
    /\ C21_Complete

====
